---- MODULE Spec2Model ----
(***************************************************************************)
(* The CSV2GEO Python SDK client (sdks/python/csv2geo): one client object, *)
(* its six operations, the request/response cycle of Client._request with  *)
(* the retry on rate limiting, the status-to-exception mapping of          *)
(* Client._handle_response and the tolerant from_dict parsers of models.py.*)
(*                                                                         *)
(* A call is a sequence of steps: the operation is invoked (local          *)
(* validation, request built), then each attempt of _request is one step   *)
(* (the transport answers or fails, the response is handled, the except    *)
(* clauses decide between sleeping and re-issuing or ending the call),     *)
(* then the caller takes the result.  The remote service and the transport *)
(* are the environment: every attempt may be answered by any response of   *)
(* Responses, by a timeout or by a connection failure.                     *)
(*                                                                         *)
(* Python values: None is the empty sequence and a present optional value  *)
(* x is <<x>>; a dict is a function from its keys; floats are integers; a  *)
(* header value read by int() is the sequence of its characters.           *)
(***************************************************************************)
EXTENDS Integers, Sequences, FiniteSets, TLC

VARIABLES
    auto_retry,            \* Client.auto_retry
    rate_limit,            \* Client.rate_limit
    rate_limit_remaining,  \* Client.rate_limit_remaining
    rate_limit_reset,      \* Client.rate_limit_reset
    pc,                    \* "idle" | "request" | "done": where the current call is
    op,                    \* the operation being called
    args,                  \* its arguments, until the first attempt has been answered
    request,               \* the request _request issues (method, endpoint, params, json)
    retry_count,           \* _request's retry_count parameter
    nreq,                  \* number of session.request calls made for the current call
    sleeps,                \* the time.sleep calls made for the current call, in order
    last,                  \* what the latest attempt of the current call got from the transport
    outcome,               \* what the call gives its caller: a value or an exception
    answers,               \* what the attempts of the current call got: the set of their summaries
    received               \* X-RateLimit-* headers of the most recently received response, if any

vars == <<auto_retry, rate_limit, rate_limit_remaining, rate_limit_reset, pc, op,
          args, request, retry_count, nreq, sleeps, last, outcome, answers, received>>

(***************************************************************************)
(* Bounds of the model.                                                    *)
(***************************************************************************)
\* Longest batch input enumerated element by element (longer ones are the
\* two inputs at the size limit, BigLens).
MaxLen == 2

(***************************************************************************)
(* Program constants.                                                      *)
(***************************************************************************)
MAX_RETRIES_minus_one == 3 - 1
MAX_RETRIES == 3
RETRY_DELAY == 1
\* the batch size limit of geocode_batch and reverse_batch
MAX_BATCH == 10000
\* the default of headers.get("Retry-After", 60)
DEFAULT_RETRY_AFTER == 60
\* the cap of min(..., 60) on the wait
MAX_WAIT == 60

(***************************************************************************)
(* Python values.                                                          *)
(***************************************************************************)
None == <<>>
Some(x) == <<x>>
EmptyDict == [k \in {} |-> 0]
\* dict.get(key, default)
Get(d, key, default) == IF key \in DOMAIN d THEN d[key] ELSE default
\* dict.get(key): None when the key is absent
GetOpt(d, key) == IF key \in DOMAIN d THEN Some(d[key]) ELSE None
Min(a, b) == IF a <= b THEN a ELSE b

\* int(): an optional sign followed by decimal digits, ValueError otherwise
\* (the header values of the model hold no whitespace or underscores).
DigitVal ==
    ("0" :> 0) @@ ("1" :> 1) @@ ("2" :> 2) @@ ("3" :> 3) @@ ("4" :> 4) @@
    ("5" :> 5) @@ ("6" :> 6) @@ ("7" :> 7) @@ ("8" :> 8) @@ ("9" :> 9)
RECURSIVE DigitsValue(_)
DigitsValue(s) ==
    IF s = <<>> THEN 0
    ELSE 10 * DigitsValue(SubSeq(s, 1, Len(s) - 1)) + DigitVal[s[Len(s)]]
int(s) ==
    LET signed == s # <<>> /\ s[1] \in {"-", "+"}
        digits == IF signed THEN Tail(s) ELSE s
    IN  IF digits = <<>> \/ \E i \in 1..Len(digits) : digits[i] \notin DOMAIN DigitVal
        THEN [ok |-> FALSE]
        ELSE [ok |-> TRUE,
              val |-> IF signed /\ s[1] = "-" THEN 0 - DigitsValue(digits)
                      ELSE DigitsValue(digits)]

(***************************************************************************)
(* exceptions.py: an SDK error carries message, code and status (and       *)
(* retry_after for RateLimitError); a Python built-in error only its type. *)
(***************************************************************************)
CSV2GEOError(type, message, code, status) ==
    [type |-> type, message |-> message, code |-> code, status |-> status]
RateLimitError(message, code, status, retry_after) ==
    [type |-> "RateLimitError", message |-> message, code |-> code,
     status |-> status, retry_after |-> retry_after]
BuiltinError(type) == [type |-> type]
Return(v) == [kind |-> "return", value |-> v]
Raise(e) == [kind |-> "raise", exc |-> e]

(***************************************************************************)
(* models.py.  A JSON object of a payload is a dict; a JSON value whose    *)
(* type the code does not check before calling .get on it is tagged with   *)
(* its type: [jtype |-> "object", fields |-> dict] or [jtype |-> "array"], *)
(* [jtype |-> "string"].                                                   *)
(***************************************************************************)
Object(fields) == [jtype |-> "object", fields |-> fields]
Array == [jtype |-> "array"]
String == [jtype |-> "string"]
IsDict(j) == j.jtype = "object"

\* Location.to_dict
Location_to_dict(loc) == [lat |-> loc.lat, lng |-> loc.lng]

ComponentKeys ==
    {"house_number", "street", "unit", "city", "state", "postcode", "country"}
\* AddressComponents.from_dict
AddressComponents_from_dict(data) == [k \in ComponentKeys |-> GetOpt(data, k)]

\* GeocodeResult.from_dict
GeocodeResult_from_dict(data) ==
    LET location == Get(data, "location", EmptyDict)
    IN  [formatted_address |-> Get(data, "formatted_address", ""),
         lat |-> Get(location, "lat", 0),
         lng |-> Get(location, "lng", 0),
         accuracy |-> Get(data, "accuracy", ""),
         accuracy_score |-> Get(data, "accuracy_score", 0),
         components |-> AddressComponents_from_dict(Get(data, "components", EmptyDict))]

\* GeocodeResponse.from_dict
GeocodeResponse_from_dict(data) ==
    LET items == Get(data, "results", <<>>)
    IN  [query |-> Get(data, "query", ""),
         results |-> [i \in 1..Len(items) |-> GeocodeResult_from_dict(items[i])]]

\* GeocodeResponse.best
best_last(response) ==
    IF Len(response.results) > 0
    THEN Some(response.results[Len(response.results)]) ELSE None
best(response) ==
    IF Len(response.results) > 0 THEN Some(response.results[1]) ELSE None

\* BatchGeocodeResponse.from_dict
BatchGeocodeResponse_from_dict(data) ==
    LET meta == Get(data, "meta", EmptyDict)
        items == Get(data, "results", <<>>)
        results == [i \in 1..Len(items) |-> GeocodeResponse_from_dict(items[i])]
    IN  [results |-> results,
         total |-> Get(meta, "total", Len(results)),
         successful |-> Get(meta, "successful", Len(results)),
         failed |-> Get(meta, "failed", 0)]

(***************************************************************************)
(* The environment: what the transport can give one attempt.               *)
(***************************************************************************)
\* Result objects of a payload: complete, partial, empty.
Result1 ==
    [formatted_address |-> "1600 Pennsylvania Ave", location |-> [lat |-> 38, lng |-> 77],
     accuracy |-> "rooftop", accuracy_score |-> 9,
     components |-> [city |-> "Washington", country |-> "US"]]
Result2 ==
    [formatted_address |-> "350 Fifth Avenue", location |-> [lat |-> 40],
     accuracy_score |-> 5]
\* Payloads of the single operations: {query, results}.
SinglePayloads ==
    { EmptyDict,
      [query |-> "q"],
      [query |-> "q", results |-> <<>>],
      [query |-> "q", results |-> <<Result1>>],
      [query |-> "q", results |-> <<Result1, Result2>>],
      [results |-> <<Result2, Result1>>],
      [results |-> <<EmptyDict>>] }
\* Payloads of the batch operations: {results: [{query, results}], meta}.
BatchPayloads ==
    { [results |-> << [query |-> "a", results |-> <<Result1>>],
                      [query |-> "b", results |-> <<>>] >>,
       meta |-> [total |-> 2, successful |-> 1, failed |-> 1]],
      [results |-> << [results |-> <<Result2, Result1>>] >>],
      [results |-> << [query |-> "a"], EmptyDict >>, meta |-> [total |-> 5]] }
\* A body: its raw text and what response.json() makes of it.
JsonBody(value) == [text |-> "json", json |-> [ok |-> TRUE, value |-> value]]
TextBody(text) == [text |-> text, json |-> [ok |-> FALSE]]
MalformedBodies == { TextBody(""), TextBody("<html>"), JsonBody(Array) }
SuccessBodies ==
    { JsonBody(Object(p)) : p \in SinglePayloads \cup BatchPayloads } \cup MalformedBodies
\* Error bodies: {error: {code, message, status}} and what may come instead.
ErrorBodies ==
    { JsonBody(Object([error |-> Object([code |-> "provider_code", message |-> "provider message",
                                         status |-> 499])])),
      JsonBody(Object([error |-> Object([message |-> "provider message"])])),
      JsonBody(Object([error |-> String])),
      JsonBody(Object(EmptyDict)) } \cup MalformedBodies

\* The X-RateLimit-* headers of a response: none, all, some.
NoRateLimitHeaders == EmptyDict
RateLimitHeaders ==
    { NoRateLimitHeaders,
      ("X-RateLimit-Limit" :> "100") @@ ("X-RateLimit-Remaining" :> "99")
          @@ ("X-RateLimit-Reset" :> "1700000000"),
      ("X-RateLimit-Limit" :> "100") @@ ("X-RateLimit-Remaining" :> "0") }
\* The Retry-After header of a 429: absent, or one of these values.
RetryAfterValues ==
    { <<"0">>, <<"5">>, <<"6", "1">>, <<"-", "1">>, <<"s", "o", "o", "n">> }
RetryAfter(v) == "Retry-After" :> v
RetryAfterHeaders == { EmptyDict } \cup { RetryAfter(v) : v \in RetryAfterValues }
OtherErrorStatuses == {400, 401, 403, 404, 500}
ProviderError ==
    JsonBody(Object([error |-> Object([code |-> "provider_code", message |-> "provider message",
                                       status |-> 499])]))

Response(status, headers, body) ==
    [kind |-> "response", status_code |-> status, headers |-> headers, body |-> body]
\* Every status with every body; every Retry-After value; every status
\* with every set of rate-limit headers.
Responses ==
    { Response(200, NoRateLimitHeaders, b) : b \in SuccessBodies }
    \cup { Response(s, NoRateLimitHeaders, b) : s \in OtherErrorStatuses, b \in ErrorBodies }
    \cup { Response(429, RetryAfter(<<"5">>), b) : b \in ErrorBodies }
    \cup { Response(429, ra, ProviderError) : ra \in RetryAfterHeaders }
    \cup { Response(200, h, JsonBody(Object([query |-> "q", results |-> <<Result1>>]))) :
             h \in RateLimitHeaders }
    \cup { Response(s, h, ProviderError) : s \in OtherErrorStatuses, h \in RateLimitHeaders }
    \cup { Response(429, h @@ RetryAfter(<<"5">>), ProviderError) : h \in RateLimitHeaders }
\* The X-RateLimit-* headers among the headers of a response.
RateLimitPart(headers) ==
    [k \in DOMAIN headers \cap {"X-RateLimit-Limit", "X-RateLimit-Remaining", "X-RateLimit-Reset"}
       |-> headers[k]]
\* requests.exceptions.Timeout and requests.exceptions.ConnectionError
TransportFaults == { [kind |-> "Timeout"], [kind |-> "ConnectionError"] }
TransportResults == Responses \cup TransportFaults
NoAttempt == [kind |-> "none"]
\* What `answers` keeps of a transport result: the status and the
\* Retry-After header of a response, the kind of a fault.
Summary(transport) ==
    IF transport.kind = "response"
    THEN [kind |-> "response", status_code |-> transport.status_code,
          retry_after |-> GetOpt(transport.headers, "Retry-After")]
    ELSE [kind |-> transport.kind]

(***************************************************************************)
(* Client._handle_response: what it stores in the three rate-limit fields  *)
(* and what it returns or raises.                                          *)
(***************************************************************************)
\* Lines 94-102: code, message and status of the error, or the exception
\* that escapes the try (only ValueError and KeyError are caught there).
error_fields(response) ==
    LET parsed == response.body.json
        error_data == Get(parsed.value.fields, "error", Object(EmptyDict))
    IN  IF ~parsed.ok
        THEN [escapes |-> FALSE, code |-> "unknown",
              message |-> IF response.body.text # "" THEN response.body.text
                          ELSE "Unknown error",
              status |-> response.status_code]
        ELSE IF ~IsDict(parsed.value) \/ ~IsDict(error_data)
        THEN [escapes |-> TRUE, exc |-> BuiltinError("AttributeError")]
        ELSE [escapes |-> FALSE,
              code |-> Get(error_data.fields, "code", "unknown"),
              message |-> Get(error_data.fields, "message", "Unknown error"),
              status |-> Get(error_data.fields, "status", response.status_code)]

\* Lines 104-116: the exception raised for a non-200 status.
error_for_status(response, e) ==
    IF response.status_code = 401
    THEN Raise(CSV2GEOError("AuthenticationError", e.message, Some(e.code), Some(e.status)))
    ELSE IF response.status_code = 403
    THEN Raise(CSV2GEOError("PermissionError", e.message, Some(e.code), Some(e.status)))
    ELSE IF response.status_code = 429
    THEN LET retry_after ==
                 IF "Retry-After" \in DOMAIN response.headers
                 THEN int(response.headers["Retry-After"])
                 ELSE [ok |-> TRUE, val |-> DEFAULT_RETRY_AFTER]
         IN  IF ~retry_after.ok THEN Raise(BuiltinError("ValueError"))
             ELSE Raise(RateLimitError(e.message, Some(e.code), Some(e.status),
                                       Some(retry_after.val)))
    ELSE IF response.status_code = 400
    THEN Raise(CSV2GEOError("InvalidRequestError", e.message, Some(e.code), Some(e.status)))
    ELSE Raise(CSV2GEOError("APIError", e.message, Some(e.code), Some(e.status)))

\* Lines 90-116: the value returned or the exception raised.
handle_result(response) ==
    IF response.status_code = 200
    THEN IF response.body.json.ok THEN Return(response.body.json.value)
         ELSE Raise(BuiltinError("JSONDecodeError"))
    ELSE LET e == error_fields(response)
         IN  IF e.escapes THEN Raise(e.exc) ELSE error_for_status(response, e)

\* Lines 86-88: the rate-limit fields after the response, given those before.
rate_fields_only_on_success(response, before) ==
    IF response.status_code = 200
    THEN <<GetOpt(response.headers, "X-RateLimit-Limit"),
           GetOpt(response.headers, "X-RateLimit-Remaining"),
           GetOpt(response.headers, "X-RateLimit-Reset")>>
    ELSE before
rate_fields(response, before) ==
    <<GetOpt(response.headers, "X-RateLimit-Limit"),
      GetOpt(response.headers, "X-RateLimit-Remaining"),
      GetOpt(response.headers, "X-RateLimit-Reset")>>

_handle_response(response, before) ==
    [rate |-> rate_fields(response, before), result |-> handle_result(response)]

(***************************************************************************)
(* Client._request: one attempt.  The try block calls the transport and    *)
(* _handle_response; the except clauses turn what was raised into a retry  *)
(* or into the exception the caller sees.                                  *)
(***************************************************************************)
\* Lines 129-137: the try block, given what the transport did.
try_block(transport, before) ==
    IF transport.kind = "response" THEN _handle_response(transport, before)
    ELSE [rate |-> before, result |-> Raise(BuiltinError(transport.kind))]

\* Python's `a or b` for an optional number.
Or(a, b) == IF a = None \/ a[1] = 0 THEN b ELSE a[1]

\* Line 141
wait_time_uncapped(e) == Or(e.retry_after, RETRY_DELAY)
wait_time(e) == Min(Or(e.retry_after, RETRY_DELAY), MAX_WAIT)

\* Line 140
retries_always(auto_retry_, retry_count_) == retry_count_ < MAX_RETRIES
retries(auto_retry_, retry_count_) == auto_retry_ /\ retry_count_ < MAX_RETRIES

\* Lines 148-149
on_timeout_retrying(retry_count_) ==
    IF retry_count_ < MAX_RETRIES THEN [kind |-> "retry", wait |-> RETRY_DELAY]
    ELSE Raise(CSV2GEOError("APIError", "Request timed out", Some("timeout"), None))
on_timeout(retry_count_) ==
    Raise(CSV2GEOError("APIError", "Request timed out", Some("timeout"), None))
\* Lines 150-151
on_connection_error(retry_count_) ==
    Raise(CSV2GEOError("APIError", "Connection failed", Some("connection_error"), None))

\* Lines 139-151: the except clauses; an exception none of them names
\* passes through.
except_clauses(result, auto_retry_, retry_count_) ==
    IF result.kind = "return" THEN result
    ELSE IF result.exc.type = "RateLimitError"
    THEN IF retries(auto_retry_, retry_count_)
         THEN [kind |-> "retry", wait |-> wait_time(result.exc)]
         ELSE result
    ELSE IF result.exc.type = "Timeout" THEN on_timeout(retry_count_)
    ELSE IF result.exc.type = "ConnectionError" THEN on_connection_error(retry_count_)
    ELSE result

\* time.sleep raises ValueError for a negative duration.
sleep_raises(seconds) == seconds < 0

(***************************************************************************)
(* The six operations: the request each builds and what each makes of the  *)
(* data _request returns.  data.get on a value that is not a dict raises   *)
(* AttributeError.                                                         *)
(***************************************************************************)
Request(method, endpoint, params, json) ==
    [method |-> method, endpoint |-> endpoint, params |-> params, json |-> json]

\* geocode and geocode_full, lines 173-175 and 196-198
geocode_params(address, country) ==
    IF country # None /\ country[1] # ""
    THEN [q |-> address, country |-> country[1]]
    ELSE [q |-> address]

\* geocode and reverse, lines 178-179 and 225-226
best_of(data) ==
    IF ~IsDict(data) THEN Raise(BuiltinError("AttributeError"))
    ELSE Return(best(GeocodeResponse_from_dict(data.fields)))
\* geocode_full and reverse_full, lines 201 and 245
full_of(data) ==
    IF ~IsDict(data) THEN Raise(BuiltinError("AttributeError"))
    ELSE Return(GeocodeResponse_from_dict(data.fields))
\* geocode_batch and reverse_batch, lines 273-274 and 317-318
batch_of(data) ==
    IF ~IsDict(data) THEN Raise(BuiltinError("AttributeError"))
    ELSE Return(BatchGeocodeResponse_from_dict(data.fields).results)

returns(op_, data) ==
    IF op_ \in {"geocode", "reverse"} THEN best_of(data)
    ELSE IF op_ \in {"geocode_full", "reverse_full"} THEN full_of(data)
    ELSE batch_of(data)

\* Lines 269 and 299: the batch size check.
too_many_from_limit(n) == n >= MAX_BATCH
too_many(n) == n > MAX_BATCH

\* reverse_batch, lines 304-314: one coordinate of the input.
recognized(coord) == coord.kind \in {"tuple", "Location", "dict"}
normalized_swapping_tuples(coord) ==
    IF coord.kind = "tuple" THEN [lat |-> coord.pair[2], lng |-> coord.pair[1]]
    ELSE IF coord.kind = "Location" THEN Location_to_dict(coord)
    ELSE coord.items
normalized(coord) ==
    IF coord.kind = "tuple" THEN [lat |-> coord.pair[1], lng |-> coord.pair[2]]
    ELSE IF coord.kind = "Location" THEN Location_to_dict(coord)
    ELSE coord.items

InvalidRequestError(message) == CSV2GEOError("InvalidRequestError", message, None, None)

(***************************************************************************)
(* The inputs of the calls.                                                *)
(***************************************************************************)
Addresses == {"1600 Pennsylvania Ave"}
Countries == {None, Some("US")}
Latitudes == {38}
Longitudes == {77}
ShortSeqs(S) == UNION { [1..n -> S] : n \in 0..MaxLen }
\* The two lengths at the size limit.
BigLens == {MAX_BATCH, MAX_BATCH + 1}
AddressLists ==
    ShortSeqs({"a", "b"})
    \cup { [i \in 1..n |-> IF i % 2 = 1 THEN "a" ELSE "b"] : n \in BigLens }
\* A coordinate of reverse_batch: a (lat, lng) tuple, a Location, a dict
\* with lat and lng, or a value of another type.
Tuple(lat, lng) == [kind |-> "tuple", pair |-> <<lat, lng>>]
Location(lat, lng) == [kind |-> "Location", lat |-> lat, lng |-> lng]
Dict(lat, lng) == [kind |-> "dict", items |-> [lat |-> lat, lng |-> lng]]
Other == [kind |-> "other"]
Coordinates == { Tuple(38, 77), Location(38, 77), Dict(38, 77), Tuple(77, 38), Other }
CoordinateLists ==
    ShortSeqs(Coordinates)
    \cup { [i \in 1..n |-> IF i % 2 = 1 THEN Tuple(38, 77) ELSE Location(40, 73)] :
             n \in BigLens }
    \cup { [i \in 1..MAX_BATCH |-> IF i < MAX_BATCH THEN Dict(40, 73) ELSE Other] }

(***************************************************************************)
(* The state machine.                                                      *)
(***************************************************************************)
NoOutcome == [kind |-> "none"]

\* Client.__init__, lines 66-81 (with an API key; auto_retry as given).
Init ==
    /\ auto_retry \in BOOLEAN
    /\ rate_limit = None
    /\ rate_limit_remaining = None
    /\ rate_limit_reset = None
    /\ pc = "idle"
    /\ op = None
    /\ args = None
    /\ request = None
    /\ retry_count = 0
    /\ nreq = 0
    /\ sleeps = <<>>
    /\ last = NoAttempt
    /\ outcome = NoOutcome
    /\ answers = {}
    /\ received = None

\* The operation calls _request(method, endpoint, params, json).
Start(op_, args_, request_) ==
    /\ pc' = "request"
    /\ op' = Some(op_)
    /\ args' = Some(args_)
    /\ request' = Some(request_)
    /\ retry_count' = 0
    /\ nreq' = 0
    /\ sleeps' = <<>>
    /\ last' = NoAttempt
    /\ outcome' = NoOutcome
    /\ answers' = {}
    /\ UNCHANGED <<auto_retry, rate_limit, rate_limit_remaining, rate_limit_reset, received>>

\* The operation raises before it calls _request.
Reject(op_, args_, exc) ==
    /\ pc' = "done"
    /\ op' = Some(op_)
    /\ args' = Some(args_)
    /\ request' = None
    /\ retry_count' = 0
    /\ nreq' = 0
    /\ sleeps' = <<>>
    /\ last' = NoAttempt
    /\ outcome' = Raise(exc)
    /\ answers' = {}
    /\ UNCHANGED <<auto_retry, rate_limit, rate_limit_remaining, rate_limit_reset, received>>

geocode ==
    /\ pc = "idle"
    /\ \E address \in Addresses, country \in Countries :
         Start("geocode", <<address, country>>,
               Request("GET", "/geocode", Some(geocode_params(address, country)), None))

geocode_full ==
    /\ pc = "idle"
    /\ \E address \in Addresses, country \in Countries :
         Start("geocode_full", <<address, country>>,
               Request("GET", "/geocode", Some(geocode_params(address, country)), None))

reverse ==
    /\ pc = "idle"
    /\ \E lat \in Latitudes, lng \in Longitudes :
         Start("reverse", <<lat, lng>>,
               Request("GET", "/reverse", Some([lat |-> lat, lng |-> lng]), None))

reverse_full ==
    /\ pc = "idle"
    /\ \E lat \in Latitudes, lng \in Longitudes :
         Start("reverse_full", <<lat, lng>>,
               Request("GET", "/reverse", Some([lat |-> lat, lng |-> lng]), None))

geocode_batch ==
    /\ pc = "idle"
    /\ \E addresses \in AddressLists :
         IF too_many(Len(addresses))
         THEN Reject("geocode_batch", addresses,
                     InvalidRequestError("Maximum 10,000 addresses per batch request"))
         ELSE Start("geocode_batch", addresses,
                    Request("POST", "/geocode", None, Some([addresses |-> addresses])))

reverse_batch ==
    /\ pc = "idle"
    /\ \E coordinates \in CoordinateLists :
         IF too_many(Len(coordinates))
         THEN Reject("reverse_batch", coordinates,
                     InvalidRequestError("Maximum 10,000 coordinates per batch request"))
         ELSE IF \E i \in 1..Len(coordinates) : ~recognized(coordinates[i])
         THEN Reject("reverse_batch", coordinates,
                     InvalidRequestError("Invalid coordinate format"))
         ELSE Start("reverse_batch", coordinates,
                    Request("POST", "/reverse", None,
                            Some([coordinates |->
                                      [i \in 1..Len(coordinates) |-> normalized(coordinates[i])]])))

\* One attempt of _request: session.request is called and the transport
\* answers with a response or fails; then either the call ends (the
\* operation returns or an exception reaches the caller), or the client
\* sleeps and _request calls itself with retry_count + 1.
attempt ==
    /\ pc = "request"
    /\ \E transport \in TransportResults :
         LET before == <<rate_limit, rate_limit_remaining, rate_limit_reset>>
             tried == try_block(transport, before)
             step == except_clauses(tried.result, auto_retry, retry_count)
             again == step.kind = "retry" /\ ~sleep_raises(step.wait)
         IN  /\ nreq' = nreq + 1
             /\ last' = transport
             /\ answers' = answers \cup {Summary(transport)}
             /\ received' = IF transport.kind = "response"
                            THEN Some(RateLimitPart(transport.headers)) ELSE received
             /\ rate_limit' = tried.rate[1]
             /\ rate_limit_remaining' = tried.rate[2]
             /\ rate_limit_reset' = tried.rate[3]
             /\ args' = None
             /\ pc' = IF again THEN "request" ELSE "done"
             /\ request' = IF again THEN request ELSE None
             /\ retry_count' = IF again THEN retry_count + 1 ELSE 0
             /\ sleeps' = IF again THEN Append(sleeps, step.wait) ELSE sleeps
             /\ outcome' = IF again THEN NoOutcome
                           ELSE IF step.kind = "retry" THEN Raise(BuiltinError("ValueError"))
                           ELSE IF step.kind = "return" THEN returns(op[1], step.value)
                           ELSE step
             /\ UNCHANGED <<auto_retry, op>>

\* The caller has the result; the client is ready for the next call.
finish ==
    /\ pc = "done"
    /\ pc' = "idle"
    /\ op' = None
    /\ args' = None
    /\ request' = None
    /\ retry_count' = 0
    /\ nreq' = 0
    /\ sleeps' = <<>>
    /\ last' = NoAttempt
    /\ outcome' = NoOutcome
    /\ answers' = {}
    /\ UNCHANGED <<auto_retry, rate_limit, rate_limit_remaining, rate_limit_reset, received>>

Next ==
    \/ geocode
    \/ geocode_full
    \/ reverse
    \/ reverse_full
    \/ geocode_batch
    \/ reverse_batch
    \/ attempt
    \/ finish

Spec == Init /\ [][Next]_vars

(***************************************************************************)
(* What the claims speak of.                                               *)
(***************************************************************************)
Done == pc = "done"
Answered == last.kind = "response"
Raised(type) == outcome.kind = "raise" /\ outcome.exc.type = type
CodeOf(e) == IF "code" \in DOMAIN e THEN e.code ELSE None
\* The call has just slept and is about to re-issue its request.
Reissuing == pc = "request" /\ nreq > 0
\* The 429 with Retry-After: 5.
RateLimited5 ==
    [kind |-> "response", status_code |-> 429, retry_after |-> Some(<<"5">>)]
\* A body from which lines 94-102 get code, message and status: not JSON
\* at all, or a JSON object whose "error" is an object or is missing.
ReadableErrorBody(body) ==
    \/ ~body.json.ok
    \/ /\ IsDict(body.json.value)
       /\ IsDict(Get(body.json.value.fields, "error", Object(EmptyDict)))
\* A body that is absent, not JSON, not a JSON object, or whose "error" is
\* missing or not an object.
MalformedErrorBody(body) ==
    \/ ~body.json.ok
    \/ ~IsDict(body.json.value)
    \/ "error" \notin DOMAIN body.json.value.fields
    \/ ~IsDict(body.json.value.fields["error"])
\* The Retry-After values that are non-negative integers, and their values.
RetryAfterNumber == (<<"0">> :> 0) @@ (<<"5">> :> 5) @@ (<<"6", "1">> :> 61)
\* The last response is a 429 whose Retry-After is absent or a
\* non-negative integer; the number of time-units it asks for.
LastAsksToWait ==
    /\ Answered
    /\ last.status_code = 429
    /\ "Retry-After" \in DOMAIN last.headers => last.headers["Retry-After"] \in DOMAIN RetryAfterNumber
LastRetryAfter ==
    IF "Retry-After" \in DOMAIN last.headers
    THEN RetryAfterNumber[last.headers["Retry-After"]] ELSE 60

(***************************************************************************)
(* C1.  Auto-retry enabled, every attempt of a call answered with 429 and  *)
(* Retry-After: 5.                                                         *)
(***************************************************************************)
\* C1 as stated, for the documented error body: after 3 requests the call
\* ends with RateLimitError, retry_after = 5.
C1_ThreeAttempts ==
    (Done /\ auto_retry /\ answers = {RateLimited5} /\ last.body = ProviderError)
        => /\ nreq = 3
           /\ Raised("RateLimitError")
           /\ outcome.exc.retry_after = Some(5)

\* C1 amended: the client waits 5 time-units before each re-issue and
\* re-issues 3 times, so RateLimitError with retry_after = 5 reaches the
\* caller after 4 requests and 3 waits; a 429 whose body is JSON of another
\* shape ends the call at that attempt with AttributeError.
C1_FourAttempts ==
    (auto_retry /\ answers = {RateLimited5})
        => /\ \A i \in 1..Len(sleeps) : sleeps[i] = 5
           /\ Reissuing => Len(sleeps) = nreq /\ nreq <= 3
           /\ Done => /\ Len(sleeps) = nreq - 1
                      /\ IF ReadableErrorBody(last.body)
                         THEN /\ nreq = 4
                              /\ Raised("RateLimitError")
                              /\ outcome.exc.retry_after = Some(5)
                         ELSE Raised("AttributeError")

C1_Witness ==
    /\ Done /\ auto_retry /\ answers = {RateLimited5}
    /\ sleeps = <<5, 5, 5>> /\ nreq = 4 /\ Raised("RateLimitError")

(***************************************************************************)
(* C2.  The error raised for a non-200 response.                           *)
(***************************************************************************)
ErrorKind(status) ==
    IF status = 401 THEN "AuthenticationError"
    ELSE IF status = 403 THEN "PermissionError"
    ELSE IF status = 429 THEN "RateLimitError"
    ELSE IF status = 400 THEN "InvalidRequestError"
    ELSE "APIError"

\* C2: when a call ends on a non-200 response (Retry-After absent or a
\* non-negative integer), the error the caller gets is of the kind its
\* status names, whatever the body, and carries code "unknown" when the
\* body is malformed or absent.
C2_KindByStatusAlone ==
    (Done /\ Answered /\ last.status_code # 200
          /\ (last.status_code = 429 => LastAsksToWait))
        => /\ Raised(ErrorKind(last.status_code))
           /\ MalformedErrorBody(last.body) => CodeOf(outcome.exc) = Some("unknown")

(***************************************************************************)
(* C3.  Timeouts and connection failures.                                  *)
(***************************************************************************)
\* C3: an attempt that ends in a timeout or a connection failure, be it
\* the first or a re-issue, is the last step of its call: nothing is
\* re-issued, no sleep follows it, and the caller gets APIError with code
\* "timeout" or "connection_error".
C3_FaultsNotRetried ==
    /\ last.kind = "Timeout"
          => /\ Done /\ Raised("APIError") /\ outcome.exc.code = Some("timeout")
             /\ Len(sleeps) = nreq - 1
    /\ last.kind = "ConnectionError"
          => /\ Done /\ Raised("APIError") /\ outcome.exc.code = Some("connection_error")
             /\ Len(sleeps) = nreq - 1

C3_Witness ==
    /\ last.kind = "Timeout" /\ nreq = 3 /\ Len(sleeps) = 2
    /\ Raised("APIError") /\ outcome.exc.code = Some("timeout")

(***************************************************************************)
(* C4.  When a request is re-issued, and what the caller gets otherwise.   *)
(***************************************************************************)
\* The response just received is one the policy retries: a 429, with
\* auto-retry enabled and fewer than the maximum of re-issues made.
Retriable == last.status_code = 429 /\ auto_retry /\ Len(sleeps) < 3
\* A 200 whose body is a JSON object.
LastIsPayload ==
    Answered /\ last.status_code = 200 /\ last.body.json.ok /\ IsDict(last.body.json.value)

\* C4: a request is re-issued only after a 429, with auto-retry enabled and
\* the attempt count below the maximum.  A call that ends on a failing
\* response that is not retried gives its caller the error of that
\* response, with no sleep after it; with auto-retry disabled, or when no
\* attempt was answered 429, the call has issued exactly one request and
\* has not slept.  A call that ends on a 200 after re-issues gives its
\* caller what the 200 yields (the value, for a JSON object), never the
\* earlier RateLimitError.
C4_RetryOnlyOnRateLimit ==
    /\ Reissuing
          => /\ Answered /\ last.status_code = 429 /\ auto_retry
             /\ retry_count = nreq /\ Len(sleeps) = nreq /\ retry_count - 1 < 3
    /\ (Done /\ Answered /\ last.status_code # 200)
          => /\ Len(sleeps) = nreq - 1
             /\ ~Retriable => outcome = handle_result(last)
             /\ (~auto_retry \/ \A a \in answers : a.status_code # 429)
                   => nreq = 1 /\ sleeps = <<>>
    /\ (Done /\ Answered /\ last.status_code = 200)
          => /\ ~Raised("RateLimitError")
             /\ LastIsPayload => outcome.kind = "return"

C4_Witness ==
    /\ Done /\ LastIsPayload /\ outcome.kind = "return"
    /\ nreq = 3 /\ sleeps = <<60, 5>>

(***************************************************************************)
(* C5.  How long the client sleeps before a re-issue.                      *)
(***************************************************************************)
\* C5 as stated: before each re-issue the client has slept exactly
\* min(retry_after, 60), retry_after being the Retry-After of the 429 just
\* received (any non-negative integer) or 60 when the header is absent.
C5_SleepsMinOfRetryAfter ==
    (Reissuing /\ LastAsksToWait)
        => sleeps[Len(sleeps)] = Min(LastRetryAfter, 60)

\* C5 amended: the sleep is min(retry_after, 60) when retry_after >= 1 and
\* 1 time-unit (RETRY_DELAY) when Retry-After is 0.
C5_SleepsDelayWhenZero ==
    (Reissuing /\ LastAsksToWait)
        => sleeps[Len(sleeps)] =
               IF LastRetryAfter = 0 THEN 1 ELSE Min(LastRetryAfter, 60)

C5_Witness ==
    /\ Reissuing /\ LastAsksToWait
    /\ GetOpt(last.headers, "Retry-After") = Some(<<"6", "1">>)
    /\ sleeps = <<1, 60>>

(***************************************************************************)
(* C6.  The size limit of the batch operations.                            *)
(***************************************************************************)
\* The coordinates a tuple, a Location or a dict stands for.
Lat(coord) ==
    IF coord.kind = "tuple" THEN coord.pair[1]
    ELSE IF coord.kind = "Location" THEN coord.lat ELSE coord.items.lat
Lng(coord) ==
    IF coord.kind = "tuple" THEN coord.pair[2]
    ELSE IF coord.kind = "Location" THEN coord.lng ELSE coord.items.lng

IsBatch == op \in {Some("geocode_batch"), Some("reverse_batch")}
RejectedLocally == Done /\ Raised("InvalidRequestError") /\ nreq = 0 /\ request = None
\* The request carries the n items of the input, in input order.
CarriesAllItems ==
    /\ pc = "request" /\ request # None
    /\ request[1].method = "POST"
    /\ request[1].json # None
    /\ IF op = Some("geocode_batch")
       THEN /\ request[1].endpoint = "/geocode"
            /\ request[1].json[1].addresses = args[1]
       ELSE /\ request[1].endpoint = "/reverse"
            /\ Len(request[1].json[1].coordinates) = Len(args[1])
            /\ \A i \in 1..Len(args[1]) :
                 request[1].json[1].coordinates[i]
                     = [lat |-> Lat(args[1][i]), lng |-> Lng(args[1][i])]

\* C6 as stated: an input of more than 10,000 items fails with
\* InvalidRequestError and no request; any input of at most 10,000 items
\* leads to the one POST carrying all items.
C6_SizeAloneDecides ==
    (IsBatch /\ args # None)
        => IF Len(args[1]) > 10000 THEN RejectedLocally ELSE CarriesAllItems

\* C6 amended: an input of more than 10,000 items fails with
\* InvalidRequestError and no request; an input of at most 10,000 items
\* (10,000 included) passes the size check, and, unless reverse_batch
\* finds an element of an unrecognized type in it, one logical POST
\* carrying all n items in input order is issued: every attempt of the
\* call sends that same request.
C6_SizeLimit ==
    /\ [] ((IsBatch /\ args # None)
             => IF Len(args[1]) > 10000 THEN RejectedLocally
                ELSE IF op = Some("reverse_batch")
                        /\ \E i \in 1..Len(args[1]) : args[1][i].kind = "other"
                THEN RejectedLocally
                ELSE CarriesAllItems)
    /\ [][(pc = "request" /\ pc' = "request") => request' = request]_vars

C6_Witness ==
    /\ IsBatch /\ args # None /\ Len(args[1]) = 10000 /\ CarriesAllItems

(***************************************************************************)
(* C7.  reverse_batch: the coordinates on the wire.                        *)
(***************************************************************************)
\* C7: reverse_batch sends at index i the mapping {lat, lng} of input
\* element i, so a tuple, a Location and a dict with the same coordinates
\* give identical wire elements; an input with an element of an
\* unrecognized type, at any position, fails with InvalidRequestError
\* before any request.
C7_Normalization ==
    (op = Some("reverse_batch") /\ args # None)
        => IF \E i \in 1..Len(args[1]) : args[1][i].kind = "other"
           THEN RejectedLocally
           ELSE Len(args[1]) <= 10000
                  => /\ pc = "request" /\ nreq = 0
                     /\ Len(request[1].json[1].coordinates) = Len(args[1])
                     /\ \A i \in 1..Len(args[1]) :
                          request[1].json[1].coordinates[i]
                              = [lat |-> Lat(args[1][i]), lng |-> Lng(args[1][i])]

C7_Witness ==
    /\ op = Some("reverse_batch") /\ args = Some(<<Tuple(38, 77), Location(38, 77)>>)
    /\ pc = "request"
    /\ request[1].json[1].coordinates[1] = request[1].json[1].coordinates[2]
    /\ request[1].json[1].coordinates[1] = Dict(38, 77).items

(***************************************************************************)
(* C8.  The best match.                                                    *)
(***************************************************************************)
\* The results list of the payload of the last response (empty when the
\* payload has none).
PayloadResults == Get(last.body.json.value.fields, "results", <<>>)

\* C8: when a call ends on a 200 whose payload is a JSON object, geocode
\* and reverse return None if the results list is empty and the parsed
\* first element otherwise; geocode_full and reverse_full return all the
\* results, parsed, in the order received, and best is element 0 of them.
C8_BestIsFirst ==
    (Done /\ LastIsPayload)
        => /\ op \in {Some("geocode"), Some("reverse")}
                 => outcome = IF PayloadResults = <<>> THEN Return(None)
                              ELSE Return(Some(GeocodeResult_from_dict(PayloadResults[1])))
           /\ op \in {Some("geocode_full"), Some("reverse_full")}
                 => /\ outcome.kind = "return"
                    /\ Len(outcome.value.results) = Len(PayloadResults)
                    /\ \A i \in 1..Len(PayloadResults) :
                         outcome.value.results[i] = GeocodeResult_from_dict(PayloadResults[i])
                    /\ best(outcome.value) =
                           IF PayloadResults = <<>> THEN None
                           ELSE Some(outcome.value.results[1])

C8_Witness ==
    /\ Done /\ LastIsPayload /\ op = Some("reverse")
    /\ PayloadResults = <<Result2, Result1>>
    /\ outcome.kind = "return" /\ outcome.value # None
    /\ outcome.value[1].formatted_address = "350 Fifth Avenue"
    /\ outcome.value[1].lat = 40 /\ outcome.value[1].lng = 0

(***************************************************************************)
(* C9.  Tolerant parsing.                                                  *)
(***************************************************************************)
\* C9: a call that ends on a 200 response returns a model value, whatever
\* the body.
C9_SuccessNeverFails ==
    (Done /\ Answered /\ last.status_code = 200) => outcome.kind = "return"

(***************************************************************************)
(* C10.  The rate-limit fields.                                            *)
(***************************************************************************)
\* C10: the three rate-limit fields are absent before any response and
\* afterwards equal the X-RateLimit-Limit, -Remaining and -Reset headers
\* of the most recently received response, whatever its status; an
\* attempt that ends in a timeout or a connection failure leaves them
\* unchanged.
C10_RateLimitFields ==
    /\ [] (IF received = None
           THEN rate_limit = None /\ rate_limit_remaining = None /\ rate_limit_reset = None
           ELSE /\ rate_limit = GetOpt(received[1], "X-RateLimit-Limit")
                /\ rate_limit_remaining = GetOpt(received[1], "X-RateLimit-Remaining")
                /\ rate_limit_reset = GetOpt(received[1], "X-RateLimit-Reset"))
    /\ [][(nreq' = nreq + 1 /\ last'.kind \in {"Timeout", "ConnectionError"})
             => UNCHANGED <<rate_limit, rate_limit_remaining, rate_limit_reset>>]_vars

C10_Witness ==
    /\ Done /\ last.kind = "Timeout"
    /\ rate_limit = Some("100") /\ rate_limit_remaining = Some("0")
    /\ rate_limit_reset = None /\ received # None

====
